---- MODULE Spec2Model ----
(***************************************************************************)
(* Model of the tool-augmented agent loop of langgraph_agent.py            *)
(* (OllamaAgent): the graph "agent" -> {"tools", END}, "tools" -> "agent", *)
(* its state (messages, result, iterations), and run() around it.          *)
(* Texts are sequences of one-character strings so that concatenation,     *)
(* lower-casing and substring search are computed, not assumed.            *)
(* Further specifications over the same variables model the code around   *)
(* the agent: ServiceSpec (ask_ollama_structured), ClientSpec              *)
(* (OllamaClient), ToolsSpec (the tool functions), MainSpec                *)
(* (example_usage.main), MasSpec (MultiAgentSystem), SuiteSpec             *)
(* (LlamaTestSuite) and OllamaTestsSpec (run_ollama_tests).                *)
(***************************************************************************)
EXTENDS Integers, Sequences, FiniteSets, TLC

VARIABLES
    max_iterations, \* self.max_iterations of the agent
    pc,             \* position of run(): idle, agent, tools, end, raised, returned
    messages,       \* state["messages"]
    task,           \* state["task"]
    result,         \* state["result"]
    iterations,     \* state["iterations"]
    returned,       \* the value run() returned to its caller
    runs,           \* number of run() calls made on this agent
    calls,          \* model calls (llm_with_tools.invoke) made in this run
    toolSteps,      \* executions of the tools node in this run
    failed,         \* a model call threw in this run
    step,           \* the step of the run taken last
    exc,            \* text of the exception raised last
    llm_input,      \* the messages handed to llm_with_tools.invoke last
    memory,         \* key/value pairs held by the agent's memory
    client,         \* the OllamaClient call in progress and its outcome
    slog,           \* outcomes of the ask_ollama_structured calls made
    tlog,           \* outcomes of the tool functions called directly
    main,           \* example_usage.main: position, requests issued, exit status
    mas,            \* the MultiAgentSystem.collaborate call in progress
    suite,          \* LlamaTestSuite: the run_test calls made and self.results
    otests          \* run_ollama_tests: position, requests attempted, outcome

agentVars == <<max_iterations, pc, messages, task, result, iterations, returned,
               runs, calls, toolSteps, failed, step, exc, llm_input, memory>>

\* the scripts around the client, the service and the agent classes
scripts == <<main, mas, suite, otests>>

outside == <<client, slog, tlog, main, mas, suite, otests>>

vars == <<max_iterations, pc, messages, task, result, iterations, returned,
          runs, calls, toolSteps, failed, step, exc, llm_input, memory,
          client, slog, tlog, main, mas, suite, otests>>

-----------------------------------------------------------------------------
(* Bounds *)

MaxBudget == 3

MaxRuns == 2

\* No run of the code gets near this length; it only keeps a run finite.
MaxHistory == 2 * MaxBudget + 4

-----------------------------------------------------------------------------
(* Texts *)

UpperCase == <<"A","B","C","D","E","F","G","H","I","J","K","L","M","N","O","P","Q","R","S","T","U","V","W","X","Y","Z">>

LowerCase == <<"a","b","c","d","e","f","g","h","i","j","k","l","m","n","o","p","q","r","s","t","u","v","w","x","y","z">>

LowerChar(c) ==
    IF \E i \in 1..26 : UpperCase[i] = c
    THEN LowerCase[CHOOSE i \in 1..26 : UpperCase[i] = c]
    ELSE c

\* str.lower() without the conversion
lower_identity(s) == s

\* str.lower()
lower(s) == [i \in 1..Len(s) |-> LowerChar(s[i])]

\* the Python test  sub in s
Contains(sub, s) ==
    \E i \in 0..(Len(s) - Len(sub)) : SubSeq(s, i + 1, i + Len(sub)) = sub

MaxIterationsText == <<"M","a","x","i","m","u","m"," ","i","t","e","r","a","t","i","o","n","s"," ","r","e","a","c","h","e","d",".">>

ErrorPrefix == <<"E","r","r","o","r",":"," ">>

RunErrorPrefix == <<"E","r","r","o","r"," ","r","u","n","n","i","n","g"," ","a","g","e","n","t",":"," ">>

NoResponseText == <<"N","o"," ","r","e","s","p","o","n","s","e"," ","g","e","n","e","r","a","t","e","d",".">>

SystemPromptText == <<"Y","o","u"," ","a","r","e"," ","a"," ","h","e","l","p","f","u","l"," ","A","I"," ","a","s","s","i","s","t","a","n","t"," ","w","i","t","h"," ","a","c","c","e","s","s"," ","t","o"," ","t","o","o","l","s","."," ","\n","W","h","e","n"," ","y","o","u"," ","n","e","e","d"," ","t","o"," ","u","s","e"," ","a"," ","t","o","o","l",","," ","f","o","r","m","a","t"," ","y","o","u","r"," ","r","e","s","p","o","n","s","e"," ","t","o"," ","i","n","d","i","c","a","t","e"," ","w","h","i","c","h"," ","t","o","o","l"," ","t","o"," ","u","s","e",".","\n","A","l","w","a","y","s"," ","t","h","i","n","k"," ","s","t","e","p","-","b","y","-","s","t","e","p"," ","a","n","d"," ","u","s","e"," ","t","o","o","l","s"," ","w","h","e","n"," ","a","p","p","r","o","p","r","i","a","t","e",".","\n","A","f","t","e","r"," ","u","s","i","n","g"," ","t","o","o","l","s",","," ","p","r","o","v","i","d","e"," ","a"," ","c","l","e","a","r"," ","f","i","n","a","l"," ","a","n","s","w","e","r"," ","t","o"," ","t","h","e"," ","u","s","e","r",".">>

tool_indicators ==
    << <<"c","a","l","c","u","l","a","t","e">>,
       <<"t","i","m","e">>,
       <<"d","o","c","k","e","r">>,
       <<"s","e","a","r","c","h">>,
       <<"m","e","m","o","r","y">> >>

-----------------------------------------------------------------------------
(* Python values and outcomes of a call *)

PyNone == [type |-> "NoneType"]

PyBool(b) == [type |-> "bool", b |-> b]

PyInt(n) == [type |-> "int", n |-> n]

PyStr(str) == [type |-> "str", s |-> str]

PyList(l) == [type |-> "list", items |-> l]

PyDict(f) == [type |-> "dict", entries |-> f]

\* the call returned v
Return(v) == [kind |-> "return", val |-> v]

\* the call raised an exception of class e
Raise(e, text) == [kind |-> "raise", exc |-> e, text |-> text]

\* d.get(k, default)
dict_get(d, k, default) == IF k \in DOMAIN d THEN d[k] ELSE default

-----------------------------------------------------------------------------
(* Scanning and printing of numbers *)

Digits == <<"0","1","2","3","4","5","6","7","8","9">>

IsDigit(c) == \E i \in 1..10 : Digits[i] = c

DigitValue(c) == (CHOOSE i \in 1..10 : Digits[i] = c) - 1

IsSpace(c) == c \in {" ", "\n", "\t", "\r"}

RECURSIVE SkipSpace(_, _)
SkipSpace(str, i) ==
    IF i <= Len(str) /\ IsSpace(str[i]) THEN SkipSpace(str, i + 1) ELSE i

RECURSIVE ScanDigits(_, _)
ScanDigits(str, i) ==
    IF i <= Len(str) /\ IsDigit(str[i]) THEN ScanDigits(str, i + 1) ELSE i

RECURSIVE DecimalValue(_)
DecimalValue(ds) ==
    IF ds = <<>> THEN 0
    ELSE 10 * DecimalValue(SubSeq(ds, 1, Len(ds) - 1)) + DigitValue(ds[Len(ds)])

ScanFail == [ok |-> FALSE]

ScanOk(v, next) == [ok |-> TRUE, val |-> v, next |-> next]

RECURSIVE NatToText(_)
NatToText(n) ==
    IF n < 10 THEN <<Digits[n + 1]>>
    ELSE NatToText(n \div 10) \o <<Digits[(n % 10) + 1]>>

\* str(n) of an int
IntToText(n) == IF n < 0 THEN <<"-">> \o NatToText(0 - n) ELSE NatToText(n)

\* n printed with at least two digits, as strftime prints %m, %d, %H, %M, %S
TwoDigits(n) == IF n < 10 THEN <<"0">> \o NatToText(n) ELSE NatToText(n)

-----------------------------------------------------------------------------
(* The tool functions *)

ResultPrefix == <<"R","e","s","u","l","t",":"," ">>

ErrorCalculatingPrefix == <<"E","r","r","o","r"," ","c","a","l","c","u","l","a","t","i","n","g",":"," ">>

DockerRunningPrefix == <<"D","o","c","k","e","r"," ","i","s"," ","r","u","n","n","i","n","g","."," ">>

DockerRunningSuffix == <<" ","c","o","n","t","a","i","n","e","r","(","s",")"," ","a","c","t","i","v","e",".">>

DockerNotRunningText == <<"D","o","c","k","e","r"," ","i","s"," ","n","o","t"," ","r","u","n","n","i","n","g"," ","o","r"," ","n","o","t"," ","a","c","c","e","s","s","i","b","l","e",".">>

CannotCheckDockerPrefix == <<"C","a","n","n","o","t"," ","c","h","e","c","k"," ","D","o","c","k","e","r"," ","s","t","a","t","u","s",":"," ">>

NoDocumentationText == <<"N","o"," ","d","o","c","u","m","e","n","t","a","t","i","o","n"," ","f","o","u","n","d"," ","f","o","r"," ","t","h","a","t"," ","q","u","e","r","y","."," ","T","r","y",":"," ","d","o","c","k","e","r",","," ","o","l","l","a","m","a",","," ","l","a","n","g","g","r","a","p","h",","," ","o","r"," ","z","s","c","a","l","e","r",".">>

\* the dict docs of search_documentation, in its order
docs ==
    << <<<<"d","o","c","k","e","r">>,
         <<"D","o","c","k","e","r"," ","i","s"," ","a"," ","p","l","a","t","f","o","r","m"," ","f","o","r"," ","d","e","v","e","l","o","p","i","n","g",","," ","s","h","i","p","p","i","n","g",","," ","a","n","d"," ","r","u","n","n","i","n","g"," ","a","p","p","l","i","c","a","t","i","o","n","s"," ","i","n"," ","c","o","n","t","a","i","n","e","r","s","."," ","K","e","y"," ","c","o","m","m","a","n","d","s",":"," ","d","o","c","k","e","r"," ","r","u","n",","," ","d","o","c","k","e","r"," ","b","u","i","l","d",","," ","d","o","c","k","e","r"," ","p","s",".">>>>,
       <<<<"o","l","l","a","m","a">>,
         <<"O","l","l","a","m","a"," ","i","s"," ","a"," ","t","o","o","l"," ","f","o","r"," ","r","u","n","n","i","n","g"," ","l","a","r","g","e"," ","l","a","n","g","u","a","g","e"," ","m","o","d","e","l","s"," ","l","o","c","a","l","l","y","."," ","U","s","e"," ","'","o","l","l","a","m","a"," ","p","u","l","l","'"," ","t","o"," ","d","o","w","n","l","o","a","d"," ","m","o","d","e","l","s"," ","a","n","d"," ","'","o","l","l","a","m","a"," ","r","u","n","'"," ","t","o"," ","i","n","t","e","r","a","c","t"," ","w","i","t","h"," ","t","h","e","m",".">>>>,
       <<<<"l","a","n","g","g","r","a","p","h">>,
         <<"L","a","n","g","G","r","a","p","h"," ","i","s"," ","a"," ","l","i","b","r","a","r","y"," ","f","o","r"," ","b","u","i","l","d","i","n","g"," ","s","t","a","t","e","f","u","l",","," ","m","u","l","t","i","-","a","c","t","o","r"," ","a","p","p","l","i","c","a","t","i","o","n","s"," ","w","i","t","h"," ","L","L","M","s","."," ","I","t"," ","u","s","e","s"," ","g","r","a","p","h","s"," ","t","o"," ","d","e","f","i","n","e"," ","a","g","e","n","t"," ","w","o","r","k","f","l","o","w","s",".">>>>,
       <<<<"z","s","c","a","l","e","r">>,
         <<"Z","s","c","a","l","e","r"," ","i","s"," ","a"," ","c","l","o","u","d"," ","s","e","c","u","r","i","t","y"," ","p","l","a","t","f","o","r","m","."," ","F","o","r"," ","D","o","c","k","e","r",","," ","a","d","d"," ","t","h","e"," ","Z","s","c","a","l","e","r"," ","r","o","o","t"," ","c","e","r","t","i","f","i","c","a","t","e"," ","t","o"," ","t","h","e"," ","c","o","n","t","a","i","n","e","r","'","s"," ","t","r","u","s","t"," ","s","t","o","r","e",".">>>> >>

IsLetter(c) == \E i \in 1..26 : c = LowerCase[i] \/ c = UpperCase[i]

RECURSIVE ScanLetters(_, _)
ScanLetters(str, i) ==
    IF i <= Len(str) /\ IsLetter(str[i]) THEN ScanLetters(str, i + 1) ELSE i

RECURSIVE SkipBlank(_, _)
SkipBlank(str, i) ==
    IF i <= Len(str) /\ str[i] = " " THEN SkipBlank(str, i + 1) ELSE i

SyntaxError == Raise("SyntaxError", <<"i","n","v","a","l","i","d"," ","s","y","n","t","a","x"," ","(","<","s","t","r","i","n","g",">",","," ","l","i","n","e"," ","1",")">>)

\* the value of  a op b  in Python; an inexact quotient is outside the subset
Arithmetic(a, op, b) ==
    CASE op = "+" -> Return(PyInt(a + b))
      [] op = "-" -> Return(PyInt(a - b))
      [] op = "*" -> Return(PyInt(a * b))
      [] op = "/" /\ b = 0 -> Raise("ZeroDivisionError", <<"d","i","v","i","s","i","o","n"," ","b","y"," ","z","e","r","o">>)
      [] op = "/" /\ b # 0 /\ a % b = 0 -> Return([type |-> "float", whole |-> a \div b])

\* eval(expression, {"__builtins__": {}}, {}) on the subset: an integer, a
\* name, or two integers joined by one of + - * /
python_eval(expression) ==
    LET i == SkipBlank(expression, 1)
    IN  IF i > Len(expression) THEN SyntaxError
        ELSE IF IsLetter(expression[i])
             THEN LET j == ScanLetters(expression, i)
                  IN  IF SkipBlank(expression, j) > Len(expression)
                      THEN Raise("NameError", <<"n","a","m","e"," ","'">>
                                               \o SubSeq(expression, i, j - 1)
                                               \o <<"'"," ","i","s"," ","n","o","t"," ","d","e","f","i","n","e","d">>)
                      ELSE SyntaxError
        ELSE IF ~IsDigit(expression[i]) THEN SyntaxError
        ELSE LET j == ScanDigits(expression, i)
                 a == DecimalValue(SubSeq(expression, i, j - 1))
                 k == SkipBlank(expression, j)
             IN  IF k > Len(expression) THEN Return(PyInt(a))
                 ELSE IF expression[k] \notin {"+", "-", "*", "/"} THEN SyntaxError
                 ELSE LET l == SkipBlank(expression, k + 1)
                      IN  IF l > Len(expression) \/ ~IsDigit(expression[l]) THEN SyntaxError
                          ELSE LET n == ScanDigits(expression, l)
                                   b == DecimalValue(SubSeq(expression, l, n - 1))
                               IN  IF SkipBlank(expression, n) <= Len(expression)
                                   THEN SyntaxError
                                   ELSE Arithmetic(a, expression[k], b)

\* str(result) in the f-string
python_str(v) ==
    CASE v.type = "int" -> IntToText(v.n)
      [] v.type = "float" -> IntToText(v.whole) \o <<".","0">>

\* a calculate without its try/except
calculate_unguarded(expression) ==
    LET r == python_eval(expression)
    IN  IF r.kind = "raise" THEN r
        ELSE Return(PyStr(ResultPrefix \o python_str(r.val)))

\* the tool calculate
calculate(expression) ==
    LET r == python_eval(expression)
    IN  IF r.kind = "raise" THEN Return(PyStr(ErrorCalculatingPrefix \o r.text))
        ELSE Return(PyStr(ResultPrefix \o python_str(r.val)))

\* the tool get_current_time: datetime.now().strftime("%Y-%m-%d %H:%M:%S")
get_current_time(now) ==
    Return(PyStr(NatToText(now.year) \o <<"-">> \o TwoDigits(now.month) \o <<"-">>
                 \o TwoDigits(now.day) \o <<" ">> \o TwoDigits(now.hour) \o <<":">>
                 \o TwoDigits(now.minute) \o <<":">> \o TwoDigits(now.second)))

RECURSIVE StripLeft(_)
StripLeft(str) ==
    IF str # <<>> /\ IsSpace(str[1]) THEN StripLeft(Tail(str)) ELSE str

RECURSIVE StripRight(_)
StripRight(str) ==
    IF str # <<>> /\ IsSpace(str[Len(str)])
    THEN StripRight(SubSeq(str, 1, Len(str) - 1))
    ELSE str

\* str.strip()
strip(str) == StripRight(StripLeft(str))

\* len(str.split('\n'))
SplitLinesCount(str) == Cardinality({i \in 1..Len(str) : str[i] = "\n"}) + 1

\* the tool check_docker_status, given what subprocess.run does
check_docker_status(run) ==
    IF run.kind = "raise" THEN Return(PyStr(CannotCheckDockerPrefix \o run.text))
    ELSE IF run.val.returncode = 0
         THEN Return(PyStr(DockerRunningPrefix
                           \o IntToText(SplitLinesCount(strip(run.val.stdout)) - 1)
                           \o DockerRunningSuffix))
    ELSE Return(PyStr(DockerNotRunningText))

RECURSIVE FirstDoc(_, _)
FirstDoc(query_lower, k) ==
    IF k > Len(docs) THEN 0
    ELSE IF Contains(docs[k][1], query_lower) THEN k
    ELSE FirstDoc(query_lower, k + 1)

\* the tool search_documentation
search_documentation(query) ==
    LET k == FirstDoc(lower(query), 1)
    IN  IF k = 0 THEN Return(PyStr(NoDocumentationText))
        ELSE Return(PyStr(<<"D","o","c","u","m","e","n","t","a","t","i","o","n"," ","f","o","r"," ","'">> \o docs[k][1]
                          \o <<"'",":"," ">> \o docs[k][2]))

\* the tool write_to_memory
write_to_memory(key, value) ==
    Return(PyStr(<<"S","t","o","r","e","d"," ","'">> \o key \o <<"'"," ","="," ","'">>
                 \o value \o <<"'"," ","i","n"," ","m","e","m","o","r","y",".">>))

-----------------------------------------------------------------------------
(* Inputs: tasks, model behaviours, tool results *)

Tasks == { <<"h","i">>, <<"2","+","2">> }

\* what llm_with_tools.invoke returns: a text, possibly with tool calls
Responses ==
    { [content |-> <<"4">>,                 tool_calls |-> <<>>],
      [content |-> <<"T","i","m","e","?">>, tool_calls |-> <<>>],
      [content |-> <<"4">>,                 tool_calls |-> <<"calculate">>],
      [content |-> <<>>,                    tool_calls |-> <<"write_to_memory">>] }

\* str(e) of what llm_with_tools.invoke raises
Exceptions == { <<"r","e","f","u","s","e","d">>, <<"t","i","m","e","d"," ","o","u","t">> }

\* the tool registry
tools == <<"calculate", "get_current_time", "check_docker_status",
           "search_documentation", "write_to_memory">>

\* what the tools called by Responses return: calculate("2+2") and
\* write_to_memory("k", "v")
ToolResult(name) ==
    CASE name = "calculate" -> calculate(<<"2","+","2">>).val.s
      [] name = "write_to_memory" -> write_to_memory(<<"k">>, <<"v">>).val.s

-----------------------------------------------------------------------------
(* Messages *)

HumanMessage(content) == [role |-> "user", content |-> content, tool_calls |-> <<>>]

AIMessage(content, tcs) == [role |-> "assistant", content |-> content, tool_calls |-> tcs]

ToolMessage(content) == [role |-> "tool", content |-> content, tool_calls |-> <<>>]

SystemMessage(content) == [role |-> "system", content |-> content, tool_calls |-> <<>>]

Last(s) == s[Len(s)]

\* a channel without a reducer would keep only the update
keep_update(old, update) == update

\* the reducer of AgentState.messages
operator_add(old, update) == old \o update

-----------------------------------------------------------------------------
(* The agent node and its conditional edge *)

\* the limit test written with > instead of >=
limit_reached_strict(iters) == iters > max_iterations

\* iterations >= self.max_iterations
limit_reached(iters) == iters >= max_iterations

\* a turn counted twice
count_turn_twice(iters) == iters + 2

\* "iterations": iterations + 1 after a model reply
count_turn(iters) == iters + 1

\* an error branch that does not count the turn
count_failed_turn_skipped(iters) == iters

\* "iterations": iterations + 1 in the except branch
count_failed_turn(iters) == iters + 1

\* an error message without the "Error: " prefix
error_message_bare(e) == AIMessage(e, <<>>)

\* AIMessage(content=f"Error: {str(e)}")
error_message(e) == AIMessage(ErrorPrefix \o e, <<>>)

\* any(indicator in content for indicator in tool_indicators)
content_suggests_tool(m) ==
    \E k \in 1..Len(tool_indicators) : Contains(tool_indicators[k], lower(m.content))

\* a continuation rule that looks at the tool calls before the budget
should_continue_tools_first(msgs, iters) ==
    IF Last(msgs).tool_calls # <<>> THEN "continue"
    ELSE IF limit_reached(iters) THEN "end"
    ELSE IF Last(msgs).role = "assistant" /\ content_suggests_tool(Last(msgs))
         THEN "continue"
    ELSE "end"

\* a continuation rule without the budget test
should_continue_unbounded(msgs, iters) ==
    IF Last(msgs).tool_calls # <<>> THEN "continue"
    ELSE IF Last(msgs).role = "assistant" /\ content_suggests_tool(Last(msgs))
         THEN "continue"
    ELSE "end"

\* a continuation rule whose last return is "continue"
should_continue_default_continue(msgs, iters) ==
    IF limit_reached(iters) THEN "end"
    ELSE IF Last(msgs).tool_calls # <<>> THEN "continue"
    ELSE "continue"

\* OllamaAgent._should_continue
should_continue(msgs, iters) ==
    IF limit_reached(iters) THEN "end"
    ELSE IF Last(msgs).tool_calls # <<>> THEN "continue"
    ELSE IF Last(msgs).role = "assistant" /\ content_suggests_tool(Last(msgs))
         THEN "continue"
    ELSE "end"

\* conditional edges with the two targets exchanged
Route_swapped(decision) == IF decision = "continue" THEN "end" ELSE "tools"

\* the conditional edges of the graph: "continue" -> tools, "end" -> END
Route(decision) == IF decision = "continue" THEN "tools" ELSE "end"

\* a model input made of the system message and the latest message only
model_input_latest_only(msgs) == <<SystemMessage(SystemPromptText), Last(msgs)>>

\* [system_message] + messages
model_input(msgs) == <<SystemMessage(SystemPromptText)>> \o msgs

\* an initial state that resumes the history of the previous run
initial_messages_resumed(old, t) == old \o <<HumanMessage(t)>>

\* "messages": [HumanMessage(content=task)] of initial_state
initial_messages(old, t) == <<HumanMessage(t)>>

\* write_to_memory only confirms: nothing is stored
write_to_memory_store(mem, k, v) == mem

-----------------------------------------------------------------------------
(* State machine *)

\* no OllamaClient call, no structured request, no direct tool call made
OutsideIdle ==
    /\ client = [op |-> "none", env |-> [kind |-> "none"], phase |-> "done",
                 seen |-> <<>>, acc |-> <<>>, out |-> [kind |-> "none"]]
    /\ slog = <<>>
    /\ tlog = <<>>
    /\ main = [pc |-> "idle", log |-> <<>>, status |-> 0]
    /\ mas = [pc |-> "idle", task |-> <<>>, specialists |-> <<>>, invoked |-> <<>>,
               results |-> <<>>]
    /\ suite = [pc |-> "idle", calls |-> <<>>, results |-> <<>>,
                 summary |-> [total |-> 0, successful |-> 0]]
    /\ otests = [pc |-> "idle", attempts |-> <<>>]

Init ==
    /\ OutsideIdle
    /\ llm_input = <<>>
    /\ memory = {}
    /\ max_iterations \in 0..MaxBudget
    /\ pc = "idle"
    /\ messages = <<>>
    /\ task = <<>>
    /\ result = <<>>
    /\ iterations = 0
    /\ returned = <<>>
    /\ runs = 0
    /\ calls = 0
    /\ toolSteps = 0
    /\ failed = FALSE
    /\ step = "init"
    /\ exc = <<>>

\* run(task): the initial state, then the graph is entered at "agent"
Run ==
    /\ pc \in {"idle", "returned"}
    /\ runs < MaxRuns
    /\ \E t \in Tasks :
         /\ messages' = initial_messages(messages, t)
         /\ task' = t
    /\ result' = <<>>
    /\ iterations' = 0
    /\ returned' = <<>>
    /\ runs' = runs + 1
    /\ calls' = 0
    /\ toolSteps' = 0
    /\ failed' = FALSE
    /\ step' = "run"
    /\ exc' = <<>>
    /\ pc' = "agent"
    /\ llm_input' = <<>>
    /\ UNCHANGED <<max_iterations, memory, outside>>

\* _agent_node at the iteration limit, followed by _should_continue
AgentExhausted ==
    /\ pc = "agent"
    /\ limit_reached(iterations)
    /\ Len(messages) < MaxHistory
    /\ messages' = operator_add(messages, messages)
    /\ result' = MaxIterationsText
    /\ iterations' = iterations
    /\ step' = "exhausted"
    /\ pc' = Route(should_continue(messages', iterations'))
    /\ UNCHANGED <<max_iterations, task, returned, runs, calls, toolSteps, failed, exc,
                   llm_input, memory, outside>>

\* _agent_node when the model call returns, followed by _should_continue
AgentReply ==
    /\ pc = "agent"
    /\ ~limit_reached(iterations)
    /\ Len(messages) < MaxHistory
    /\ llm_input' = model_input(messages)
    /\ \E r \in Responses :
         messages' = operator_add(messages, <<AIMessage(r.content, r.tool_calls)>>)
    /\ iterations' = count_turn(iterations)
    /\ calls' = calls + 1
    /\ step' = "reply"
    /\ pc' = Route(should_continue(messages', iterations'))
    /\ UNCHANGED <<max_iterations, task, result, returned, runs, toolSteps, failed, exc,
                   memory, outside>>

\* _agent_node when the model call throws, followed by _should_continue
AgentThrow ==
    /\ pc = "agent"
    /\ ~limit_reached(iterations)
    /\ Len(messages) < MaxHistory
    /\ llm_input' = model_input(messages)
    /\ \E e \in Exceptions :
         /\ exc' = e
         /\ messages' = operator_add(messages, <<error_message(e)>>)
    /\ iterations' = count_failed_turn(iterations)
    /\ calls' = calls + 1
    /\ failed' = TRUE
    /\ step' = "throw"
    /\ pc' = Route(should_continue(messages', iterations'))
    /\ UNCHANGED <<max_iterations, task, result, returned, runs, toolSteps, memory, outside>>

\* an edge from "tools" back to "tools"
tools_edge_self == "tools"

\* workflow.add_edge("tools", "agent")
tools_edge_target == "agent"

\* one ToolMessage per tool call of the latest message
tool_outputs(m) == [i \in 1..Len(m.tool_calls) |-> ToolMessage(ToolResult(m.tool_calls[i]))]

\* the tools node, ToolNode(tools), then the edge back to "agent"
ToolStep ==
    /\ pc = "tools"
    /\ Len(messages) < MaxHistory
    /\ toolSteps < MaxHistory
    /\ messages' = operator_add(messages, tool_outputs(Last(messages)))
    /\ toolSteps' = toolSteps + 1
    /\ step' = "tools"
    /\ pc' = tools_edge_target
    /\ memory' = IF \E i \in 1..Len(Last(messages).tool_calls) :
                        Last(messages).tool_calls[i] = "write_to_memory"
                 THEN write_to_memory_store(memory, <<"k">>, <<"v">>)
                 ELSE memory
    /\ UNCHANGED <<max_iterations, task, result, iterations, returned, runs, calls, failed, exc,
                   llm_input, outside>>

\* an exception escapes graph.invoke while the tools node runs
GraphRaise ==
    /\ pc = "tools"
    /\ \E e \in Exceptions : exc' = e
    /\ step' = "raise"
    /\ pc' = "raised"
    /\ UNCHANGED <<max_iterations, messages, task, result, iterations, returned, runs,
                   calls, toolSteps, failed, llm_input, memory, outside>>

\* a run() that returns state["result"] instead of the last message
ReturnResult_from_result ==
    /\ pc = "end"
    /\ returned' = result
    /\ step' = "return"
    /\ pc' = "returned"
    /\ UNCHANGED <<max_iterations, messages, task, result, iterations, runs, calls,
                   toolSteps, failed, exc, llm_input, memory, outside>>

\* run() extracts the content of the last message and returns it
ReturnResult ==
    /\ pc = "end"
    /\ returned' = IF messages # <<>> THEN Last(messages).content ELSE NoResponseText
    /\ step' = "return"
    /\ pc' = "returned"
    /\ UNCHANGED <<max_iterations, messages, task, result, iterations, runs, calls,
                   toolSteps, failed, exc, llm_input, memory, outside>>

\* a run() whose handler lets the exception go on to the caller
ReturnError_reraise ==
    /\ pc = "raised"
    /\ step' = "return"
    /\ pc' = "crashed"
    /\ UNCHANGED <<max_iterations, messages, task, result, iterations, returned, runs, calls,
                   toolSteps, failed, exc, llm_input, memory, outside>>

\* run() catches the exception and returns the error text
ReturnError ==
    /\ pc = "raised"
    /\ returned' = RunErrorPrefix \o exc
    /\ step' = "return"
    /\ pc' = "returned"
    /\ UNCHANGED <<max_iterations, messages, task, result, iterations, runs, calls,
                   toolSteps, failed, exc, llm_input, memory, outside>>

Next ==
    \/ Run
    \/ AgentExhausted
    \/ AgentReply
    \/ AgentThrow
    \/ ToolStep
    \/ GraphRaise
    \/ ReturnResult
    \/ ReturnError

Spec == Init /\ [][Next]_vars

\* run() is synchronous: once called, each of its steps is taken.  Nothing
\* forces an exception out of the graph, so GraphRaise is not under fairness.
FairSpec == Spec /\ WF_vars(AgentExhausted \/ AgentReply \/ AgentThrow \/ ToolStep
                            \/ ReturnResult \/ ReturnError)

TypeOK ==
    /\ max_iterations \in 0..MaxBudget
    /\ pc \in {"idle", "agent", "tools", "end", "raised", "returned"}
    /\ iterations \in Nat
    /\ runs \in 0..MaxRuns
    /\ Len(messages) <= MaxHistory

-----------------------------------------------------------------------------
(* json.loads on the subset: objects, arrays, strings without escapes,     *)
(* non-negative integers, null, true, false, white space                   *)

\* a number is 0 or a run of digits that does not start with 0
ScanNumber(str, i) ==
    IF str[i] = "0" THEN ScanOk(PyInt(0), i + 1)
    ELSE LET j == ScanDigits(str, i)
         IN  ScanOk(PyInt(DecimalValue(SubSeq(str, i, j - 1))), j)

RECURSIVE ScanQuote(_, _)
ScanQuote(str, i) ==
    IF i > Len(str) THEN 0
    ELSE IF str[i] = "\"" THEN i
    ELSE ScanQuote(str, i + 1)

ScanString(str, i) ==
    LET j == ScanQuote(str, i + 1)
    IN  IF j = 0 THEN ScanFail ELSE ScanOk(PyStr(SubSeq(str, i + 1, j - 1)), j + 1)

StartsWith(str, i, lit) ==
    i + Len(lit) - 1 <= Len(str) /\ SubSeq(str, i, i + Len(lit) - 1) = lit

RECURSIVE ScanValue(_, _)
RECURSIVE ScanItems(_, _, _)
RECURSIVE ScanPairs(_, _, _)

ScanValue(str, i) ==
    IF i > Len(str) THEN ScanFail
    ELSE IF str[i] = "{"
         THEN LET j == SkipSpace(str, i + 1)
              IN  IF j <= Len(str) /\ str[j] = "}"
                  THEN ScanOk(PyDict(<<>>), j + 1)
                  ELSE ScanPairs(str, j, <<>>)
    ELSE IF str[i] = "["
         THEN LET j == SkipSpace(str, i + 1)
              IN  IF j <= Len(str) /\ str[j] = "]"
                  THEN ScanOk(PyList(<<>>), j + 1)
                  ELSE ScanItems(str, j, <<>>)
    ELSE IF str[i] = "\"" THEN ScanString(str, i)
    ELSE IF IsDigit(str[i]) THEN ScanNumber(str, i)
    ELSE IF StartsWith(str, i, <<"n","u","l","l">>) THEN ScanOk(PyNone, i + 4)
    ELSE IF StartsWith(str, i, <<"t","r","u","e">>) THEN ScanOk(PyBool(TRUE), i + 4)
    ELSE IF StartsWith(str, i, <<"f","a","l","s","e">>) THEN ScanOk(PyBool(FALSE), i + 5)
    ELSE ScanFail

ScanItems(str, i, acc) ==
    LET v == ScanValue(str, i)
    IN  IF ~v.ok THEN ScanFail
        ELSE LET j == SkipSpace(str, v.next)
             IN  IF j > Len(str) THEN ScanFail
                 ELSE IF str[j] = ","
                      THEN ScanItems(str, SkipSpace(str, j + 1), Append(acc, v.val))
                 ELSE IF str[j] = "]" THEN ScanOk(PyList(Append(acc, v.val)), j + 1)
                 ELSE ScanFail

ScanPairs(str, i, acc) ==
    IF i > Len(str) \/ str[i] # "\"" THEN ScanFail
    ELSE LET k == ScanString(str, i)
         IN  IF ~k.ok THEN ScanFail
             ELSE LET c == SkipSpace(str, k.next)
                  IN  IF c > Len(str) \/ str[c] # ":" THEN ScanFail
                      ELSE LET v == ScanValue(str, SkipSpace(str, c + 1))
                           IN  IF ~v.ok THEN ScanFail
                               ELSE LET d == [x \in DOMAIN acc \cup {k.val.s} |->
                                                IF x = k.val.s THEN v.val ELSE acc[x]]
                                        j == SkipSpace(str, v.next)
                                    IN  IF j > Len(str) THEN ScanFail
                                        ELSE IF str[j] = ","
                                             THEN ScanPairs(str, SkipSpace(str, j + 1), d)
                                        ELSE IF str[j] = "}" THEN ScanOk(PyDict(d), j + 1)
                                        ELSE ScanFail

\* a decoder that stops after the first value and ignores what follows
json_loads_prefix(str) ==
    LET v == ScanValue(str, SkipSpace(str, 1))
    IN  IF ~v.ok THEN Raise("JSONDecodeError", <<>>) ELSE Return(v.val)

\* json.loads(str)
json_loads(str) ==
    LET v == ScanValue(str, SkipSpace(str, 1))
    IN  IF ~v.ok THEN Raise("JSONDecodeError", <<>>)
        ELSE IF SkipSpace(str, v.next) <= Len(str) THEN Raise("JSONDecodeError", <<>>)
        ELSE Return(v.val)

-----------------------------------------------------------------------------
(* ollama_service.ask_ollama_structured *)

MaxAsks == 2

\* message.content of the responses of client.chat
Contents ==
    { <<"{","}">>,
      <<"{","\"","a","\"",":","1","}">>,
      <<"{","\"","a","\"",":"," ","[","1",","," ","2","]","}">>,
      <<"[","]">>,
      <<" ","7"," ">>,
      <<"\"","h","i","\"">>,
      <<"n","u","l","l">>,
      <<>>,
      <<"{","\"","a","\"",":","1">>,
      <<"h","i">>,
      <<"{","\"","a","\"",":","1","}"," ","x">>,
      <<"[","1",",","]">>,
      <<"{","\"","a","\"","}">>,
      <<"0","1">> }

\* what client.chat does: it raises, or returns a response with or without
\* a message and with or without a content
ChatOutcomes ==
    { Raise("ResponseError", <<"r","e","f","u","s","e","d">>) }
    \cup { Return([done |-> TRUE]) }
    \cup { Return([message |-> [role |-> "assistant"]]) }
    \cup { Return([message |-> [role |-> "assistant", content |-> c]]) : c \in Contents }

\* response_raw.get('message', {}).get('content', '{}')
response_content(response_raw) ==
    dict_get(dict_get(response_raw, "message", <<>>), "content", <<"{","}">>)

\* a function that answers {} when the content cannot be decoded
ask_ollama_structured_lenient(chat) ==
    IF chat.kind = "raise" THEN chat
    ELSE LET parsed == json_loads(response_content(chat.val))
         IN  IF parsed.kind = "raise" THEN Return(PyDict(<<>>)) ELSE parsed

\* ask_ollama_structured, given what client.chat does
ask_ollama_structured(chat) ==
    IF chat.kind = "raise" THEN chat
    ELSE json_loads(response_content(chat.val))

\* a caller asks for a structured answer
AskStructured ==
    /\ Len(slog) < MaxAsks
    /\ \E chat \in ChatOutcomes :
         slog' = Append(slog, [chat |-> chat, out |-> ask_ollama_structured(chat)])
    /\ UNCHANGED <<agentVars, client, tlog, scripts>>

\* no agent is run in the scripts that do not use one
AgentIdle ==
    /\ max_iterations = 0
    /\ pc = "idle"
    /\ messages = <<>>
    /\ task = <<>>
    /\ result = <<>>
    /\ iterations = 0
    /\ returned = <<>>
    /\ runs = 0
    /\ calls = 0
    /\ toolSteps = 0
    /\ failed = FALSE
    /\ step = "init"
    /\ exc = <<>>
    /\ llm_input = <<>>
    /\ memory = {}

ServiceInit == AgentIdle /\ OutsideIdle

ServiceNext == AskStructured

ServiceSpec == ServiceInit /\ [][ServiceNext]_vars

-----------------------------------------------------------------------------
(* example_usage.OllamaClient *)

MaxChunks == 2

\* requests.get(host + "/api/version"): a response, or an exception
VersionOutcomes ==
    { Return([status_code |-> c]) : c \in {200, 204, 404, 500} }
    \cup { Raise("ConnectionError", e) : e \in Exceptions }

\* a probe that accepts every 2xx status
check_connection_any_success(get) ==
    IF get.kind = "raise" THEN Return(PyBool(FALSE))
    ELSE Return(PyBool(get.val.status_code < 300))

\* OllamaClient.check_connection, given what requests.get does
check_connection(get) ==
    IF get.kind = "raise" THEN Return(PyBool(FALSE))
    ELSE Return(PyBool(get.val.status_code = 200))

\* self.client.list(): a dict with or without 'models', or an exception
ListOutcomes ==
    { Return([models |-> <<>>]),
      Return([models |-> <<[name |-> <<"l","l","a","m","a","3",".","2",":","l","a","t","e","s","t">>]>>]),
      Return([models |-> <<[name |-> <<"m","i","s","t","r","a","l",":","7","b">>], [name |-> <<"l","l","a","m","a","3",".","2",":","l","a","t","e","s","t">>]>>]),
      Return([error |-> <<>>]) }
    \cup { Raise("ResponseError", e) : e \in Exceptions }

\* a list_models without its try/except
list_models_unguarded(list) ==
    IF list.kind = "raise" THEN list
    ELSE Return(PyList(dict_get(list.val, "models", <<>>)))

\* OllamaClient.list_models, given what self.client.list does
list_models(list) ==
    IF list.kind = "raise" THEN Return(PyList(<<>>))
    ELSE Return(PyList(dict_get(list.val, "models", <<>>)))

\* self.client.generate(...) without stream
GenerateOutcomes ==
    { Return([response |-> <<"a">>]), Return([done |-> TRUE]) }
    \cup { Raise("ResponseError", e) : e \in Exceptions }

\* OllamaClient.generate with stream=False
generate_once(gen) ==
    IF gen.kind = "raise" THEN Return(PyNone)
    ELSE Return(PyStr(dict_get(gen.val, "response", <<>>)))

\* self.client.chat(...) without stream
ChatOnceOutcomes ==
    { Return([message |-> [content |-> <<"a">>]]), Return([message |-> [role |-> "assistant"]]),
      Return([done |-> TRUE]) }
    \cup { Raise("ResponseError", e) : e \in Exceptions }

\* OllamaClient.chat with stream=False
chat_once(chat) ==
    IF chat.kind = "raise" THEN Return(PyNone)
    ELSE Return(PyStr(dict_get(dict_get(chat.val, "message", <<>>), "content", <<>>)))

\* what a stream yields next, per operation
StreamItems(op) ==
    CASE op = "generate" -> { [response |-> <<"a">>], [response |-> <<"B">>], [done |-> TRUE] }
      [] op = "chat" -> { [message |-> [content |-> <<"a">>]],
                          [message |-> [content |-> <<"B">>]],
                          [done |-> TRUE] }
      [] op = "pull_model" -> { [status |-> "pulling manifest"],
                                [status |-> "downloading", total |-> 10, completed |-> 5],
                                [status |-> "downloading", total |-> 0, completed |-> 0] }

\* chunk.get('response', '') and chunk.get('message', {}).get('content', '')
chunk_content(op, chunk) ==
    CASE op = "generate" -> dict_get(chunk, "response", <<>>)
      [] op = "chat" -> dict_get(dict_get(chunk, "message", <<>>), "content", <<>>)
      [] op = "pull_model" -> <<>>

\* the body of the pull loop divides by progress['total']
loop_body_raises(op, item) ==
    /\ op = "pull_model"
    /\ "total" \in DOMAIN item
    /\ "completed" \in DOMAIN item
    /\ item.total = 0

\* what the operation returns once the stream is exhausted
stream_result(op, acc) ==
    IF op = "pull_model" THEN Return(PyBool(TRUE)) ELSE Return(PyStr(acc))

\* an except branch that hands back the text received so far
stream_failure_partial(op, acc) ==
    IF op = "pull_model" THEN Return(PyBool(FALSE)) ELSE Return(PyStr(acc))

\* what the except branch of the operation returns
stream_failure(op, acc) ==
    IF op = "pull_model" THEN Return(PyBool(FALSE)) ELSE Return(PyNone)

NoCallInProgress == client.op = "none" \/ client.phase = "done"

Finished(op, env, out) ==
    [op |-> op, env |-> env, phase |-> "done", seen |-> <<>>, acc |-> <<>>, out |-> out]

\* client.check_connection()
CheckConnection ==
    /\ NoCallInProgress
    /\ \E get \in VersionOutcomes :
         client' = Finished("check_connection", get, check_connection(get))
    /\ UNCHANGED <<agentVars, slog, tlog, scripts>>

\* client.list_models()
ListModels ==
    /\ NoCallInProgress
    /\ \E list \in ListOutcomes :
         client' = Finished("list_models", list, list_models(list))
    /\ UNCHANGED <<agentVars, slog, tlog, scripts>>

\* client.generate(model, prompt)
GenerateOnce ==
    /\ NoCallInProgress
    /\ \E gen \in GenerateOutcomes :
         client' = Finished("generate", gen, generate_once(gen))
    /\ UNCHANGED <<agentVars, slog, tlog, scripts>>

\* client.chat(model, messages)
ChatOnce ==
    /\ NoCallInProgress
    /\ \E chat \in ChatOnceOutcomes :
         client' = Finished("chat", chat, chat_once(chat))
    /\ UNCHANGED <<agentVars, slog, tlog, scripts>>

\* generate(..., stream=True), chat(..., stream=True) or pull_model(name)
\* enters its loop over the stream
StartStream ==
    /\ NoCallInProgress
    /\ \E op \in {"generate", "chat", "pull_model"} :
         client' = [op |-> op, env |-> [kind |-> "open"], phase |-> "streaming",
                    seen |-> <<>>, acc |-> <<>>, out |-> [kind |-> "none"]]
    /\ UNCHANGED <<agentVars, slog, tlog, scripts>>

\* one pass of the loop: the stream yields an item
StreamChunk ==
    /\ client.op # "none"
    /\ client.phase = "streaming"
    /\ Len(client.seen) < MaxChunks
    /\ \E item \in StreamItems(client.op) :
         client' = IF loop_body_raises(client.op, item)
                   THEN [client EXCEPT !.env = [kind |-> "item"],
                                       !.seen = Append(@, item),
                                       !.phase = "done",
                                       !.out = stream_failure(client.op, client.acc)]
                   ELSE [client EXCEPT !.env = [kind |-> "item"],
                                       !.seen = Append(@, item),
                                       !.acc = @ \o chunk_content(client.op, item)]
    /\ UNCHANGED <<agentVars, slog, tlog, scripts>>

\* the stream is exhausted: the loop ends and the operation returns
StreamEnd ==
    /\ client.op # "none"
    /\ client.phase = "streaming"
    /\ client' = [client EXCEPT !.env = [kind |-> "end"],
                                !.phase = "done",
                                !.out = stream_result(client.op, client.acc)]
    /\ UNCHANGED <<agentVars, slog, tlog, scripts>>

\* the stream raises: the except branch of the operation returns
StreamFail ==
    /\ client.op # "none"
    /\ client.phase = "streaming"
    /\ \E e \in Exceptions :
         client' = [client EXCEPT !.env = Raise("ResponseError", e),
                                  !.phase = "done",
                                  !.out = stream_failure(client.op, client.acc)]
    /\ UNCHANGED <<agentVars, slog, tlog, scripts>>

ClientInit == AgentIdle /\ OutsideIdle

ClientNext ==
    \/ CheckConnection
    \/ ListModels
    \/ GenerateOnce
    \/ ChatOnce
    \/ StartStream
    \/ StreamChunk
    \/ StreamEnd
    \/ StreamFail

ClientSpec == ClientInit /\ [][ClientNext]_vars

-----------------------------------------------------------------------------
(* The tool functions called one by one *)

MaxToolCalls == 2

Expressions ==
    { <<"2","+","2">>,
      <<"1","0"," ","*"," ","5">>,
      <<"2","-","5">>,
      <<"8","/","2">>,
      <<"1","/","0">>,
      <<"x">>,
      <<"2","+">> }

Clocks ==
    { [year |-> 2025, month |-> 1, day |-> 2, hour |-> 3, minute |-> 4, second |-> 5],
      [year |-> 2026, month |-> 11, day |-> 30, hour |-> 23, minute |-> 59, second |-> 0] }

\* what subprocess.run(["docker", "ps"], ...) does
DockerOutcomes ==
    { Return([returncode |-> 0, stdout |-> <<"I","D","\n">>]),
      Return([returncode |-> 0, stdout |-> <<"I","D","\n","a","b","\n","c","d","\n">>]),
      Return([returncode |-> 0, stdout |-> <<>>]),
      Return([returncode |-> 1, stdout |-> <<>>]),
      Raise("FileNotFoundError", <<"N","o"," ","s","u","c","h"," ","f","i","l","e">>),
      Raise("TimeoutExpired", <<"t","i","m","e","d"," ","o","u","t">>) }

Queries ==
    { <<"D","o","c","k","e","r"," ","h","e","l","p">>,
      <<"z","s","c","a","l","e","r"," ","w","i","t","h"," ","d","o","c","k","e","r">>,
      <<"O","L","L","A","M","A">>,
      <<"f","o","o">> }

CallCalculate ==
    /\ Len(tlog) < MaxToolCalls
    /\ \E e \in Expressions :
         tlog' = Append(tlog, [tool |-> "calculate", arg |-> e, out |-> calculate(e)])
    /\ UNCHANGED <<agentVars, client, slog, scripts>>

CallGetCurrentTime ==
    /\ Len(tlog) < MaxToolCalls
    /\ \E now \in Clocks :
         tlog' = Append(tlog, [tool |-> "get_current_time", arg |-> now,
                               out |-> get_current_time(now)])
    /\ UNCHANGED <<agentVars, client, slog, scripts>>

CallCheckDockerStatus ==
    /\ Len(tlog) < MaxToolCalls
    /\ \E run \in DockerOutcomes :
         tlog' = Append(tlog, [tool |-> "check_docker_status", arg |-> run,
                               out |-> check_docker_status(run)])
    /\ UNCHANGED <<agentVars, client, slog, scripts>>

CallSearchDocumentation ==
    /\ Len(tlog) < MaxToolCalls
    /\ \E q \in Queries :
         tlog' = Append(tlog, [tool |-> "search_documentation", arg |-> q,
                               out |-> search_documentation(q)])
    /\ UNCHANGED <<agentVars, client, slog, scripts>>

CallWriteToMemory ==
    /\ Len(tlog) < MaxToolCalls
    /\ \E k \in {<<"k">>, <<"l","a","s","t">>} :
         tlog' = Append(tlog, [tool |-> "write_to_memory", arg |-> k,
                               out |-> write_to_memory(k, <<"v">>)])
    /\ UNCHANGED <<agentVars, client, slog, scripts>>

ToolsInit == AgentIdle /\ OutsideIdle

ToolsNext ==
    \/ CallCalculate
    \/ CallGetCurrentTime
    \/ CallCheckDockerStatus
    \/ CallSearchDocumentation
    \/ CallWriteToMemory

ToolsSpec == ToolsInit /\ [][ToolsNext]_vars

-----------------------------------------------------------------------------
(* example_usage.main *)

\* default_model = 'llama3.2'
default_model == <<"l","l","a","m","a","3",".","2">>

\* what a streamed call meets: the items the stream yields, then its end or
\* an exception
Streams(op) ==
    { [items |-> s, end |-> e] :
        s \in UNION { [1..n -> StreamItems(op)] : n \in 0..MaxChunks },
        e \in {[kind |-> "end"]} \cup { Raise("ResponseError", x) : x \in Exceptions } }

RECURSIVE stream_text(_, _)
stream_text(op, items) ==
    IF items = <<>> THEN <<>>
    ELSE chunk_content(op, Head(items)) \o stream_text(op, Tail(items))

\* a streamed operation of OllamaClient run from its first line to its return
run_stream(op, stream) ==
    IF \E i \in 1..Len(stream.items) : loop_body_raises(op, stream.items[i])
    THEN stream_failure(op, <<>>)
    ELSE IF stream.end.kind = "raise"
         THEN stream_failure(op, stream_text(op, stream.items))
         ELSE stream_result(op, stream_text(op, stream.items))

\* OllamaClient.pull_model, given what the progress stream does
pull_model(stream) == run_stream("pull_model", stream)

\* model_names = [m.get('name', '') for m in models]
model_names(models) == [i \in 1..Len(models) |-> dict_get(models[i], "name", <<>>)]

\* any(default_model in name for name in model_names)
default_model_listed(models) ==
    \E i \in 1..Len(models) : Contains(default_model, model_names(models)[i])

\* a main that goes on whatever the probe says
after_probe_ignored(connected) == "list"

\* if not client.check_connection(): ... sys.exit(1)
after_probe(connected) == IF connected THEN "list" ELSE "exited"

\* a main that goes on after a failed pull
after_pull_ignored(pulled) == "generate"

\* if not client.pull_model(default_model): ... sys.exit(1)
after_pull(pulled) == IF pulled THEN "generate" ELSE "exited"

Request(req, env, ok) == [req |-> req, env |-> env, ok |-> ok]

\* main() is started
MainStart ==
    /\ main.pc = "idle"
    /\ main' = [main EXCEPT !.pc = "probe"]
    /\ UNCHANGED <<agentVars, client, slog, tlog, mas, suite, otests>>

\* 1. Checking connection to Ollama
MainProbe ==
    /\ main.pc = "probe"
    /\ \E get \in VersionOutcomes :
         LET connected == check_connection(get).val.b
         IN  main' = [pc |-> after_probe(connected),
                      log |-> Append(main.log, Request("check_connection", get, connected)),
                      status |-> IF after_probe(connected) = "exited" THEN 1 ELSE 0]
    /\ UNCHANGED <<agentVars, client, slog, tlog, mas, suite, otests>>

\* 2. Listing available models, then the test for the default model
MainList ==
    /\ main.pc = "list"
    /\ \E list \in ListOutcomes :
         LET models == list_models(list).val.items
         IN  main' = [main EXCEPT
                        !.pc = IF default_model_listed(models) THEN "generate" ELSE "pull",
                        !.log = Append(@, Request("list_models", list, models # <<>>))]
    /\ UNCHANGED <<agentVars, client, slog, tlog, mas, suite, otests>>

\* 3. Pulling the default model
MainPull ==
    /\ main.pc = "pull"
    /\ \E stream \in Streams("pull_model") :
         LET pulled == pull_model(stream).val.b
         IN  main' = [pc |-> after_pull(pulled),
                      log |-> Append(main.log, Request("pull_model", stream, pulled)),
                      status |-> IF after_pull(pulled) = "exited" THEN 1 ELSE 0]
    /\ UNCHANGED <<agentVars, client, slog, tlog, mas, suite, otests>>

\* Example 1: client.generate(..., stream=True); main does not use the result
MainGenerate ==
    /\ main.pc = "generate"
    /\ \E stream \in Streams("generate") :
         main' = [main EXCEPT
                    !.pc = "chat",
                    !.log = Append(@, Request("generate", [kind |-> "stream"],
                                   run_stream("generate", stream).val.type = "str"))]
    /\ UNCHANGED <<agentVars, client, slog, tlog, mas, suite, otests>>

\* Example 2: client.chat(..., stream=True); main does not use the result
MainChat ==
    /\ main.pc = "chat"
    /\ \E stream \in Streams("chat") :
         main' = [main EXCEPT
                    !.pc = "rest",
                    !.log = Append(@, Request("chat", [kind |-> "stream"],
                                   run_stream("chat", stream).val.type = "str"))]
    /\ UNCHANGED <<agentVars, client, slog, tlog, mas, suite, otests>>

MainInit == AgentIdle /\ OutsideIdle

MainNext ==
    \/ MainStart
    \/ MainProbe
    \/ MainList
    \/ MainPull
    \/ MainGenerate
    \/ MainChat

MainSpec == MainInit /\ [][MainNext]_vars

-----------------------------------------------------------------------------
(* MultiAgentSystem *)

MaxSpecialists == 2

\* the names a caller may put in the list: two known ones and an unknown one
Specialties == {"coder", "debugger", "poet"}

\* what self.llm.invoke returns
Answers == { <<"o","k">>, <<"n","o">> }

\* the dict specialist_prompts of run_specialist
specialist_prompts ==
    [ coder |-> <<"Y","o","u"," ","a","r","e"," ","a","n"," ","e","x","p","e","r","t"," ","P","y","t","h","o","n"," ","p","r","o","g","r","a","m","m","e","r","."," ","P","r","o","v","i","d","e"," ","c","l","e","a","n",","," ","e","f","f","i","c","i","e","n","t"," ","c","o","d","e"," ","w","i","t","h"," ","e","x","p","l","a","n","a","t","i","o","n","s",".">>,
      analyst |-> <<"Y","o","u"," ","a","r","e"," ","a"," ","d","a","t","a"," ","a","n","a","l","y","s","t","."," ","P","r","o","v","i","d","e"," ","i","n","s","i","g","h","t","s",","," ","p","a","t","t","e","r","n","s",","," ","a","n","d"," ","r","e","c","o","m","m","e","n","d","a","t","i","o","n","s",".">>,
      debugger |-> <<"Y","o","u"," ","a","r","e"," ","a"," ","d","e","b","u","g","g","i","n","g"," ","e","x","p","e","r","t","."," ","I","d","e","n","t","i","f","y"," ","i","s","s","u","e","s"," ","a","n","d"," ","p","r","o","v","i","d","e"," ","s","o","l","u","t","i","o","n","s",".">>,
      architect |-> <<"Y","o","u"," ","a","r","e"," ","a"," ","s","y","s","t","e","m"," ","a","r","c","h","i","t","e","c","t","."," ","D","e","s","i","g","n"," ","s","c","a","l","a","b","l","e",","," ","m","a","i","n","t","a","i","n","a","b","l","e"," ","s","o","l","u","t","i","o","n","s",".">> ]

DefaultSpecialistPrompt == <<"Y","o","u"," ","a","r","e"," ","a"," ","h","e","l","p","f","u","l"," ","A","I"," ","a","s","s","i","s","t","a","n","t",".">>

\* full_prompt = f"{system_prompt}\n\nTask: {task}"
full_prompt(specialty, t) ==
    dict_get(specialist_prompts, specialty, DefaultSpecialistPrompt)
        \o <<"\n","\n","T","a","s","k",":"," ">> \o t

\* a run_specialist without its try/except
run_specialist_unguarded(invoke) == invoke

\* MultiAgentSystem.run_specialist, given what self.llm.invoke does
run_specialist(invoke) ==
    IF invoke.kind = "raise" THEN Return(PyStr(ErrorPrefix \o invoke.text))
    ELSE invoke

\* an assignment that adds an entry even when the key is there
dict_set_append(d, k, v) == Append(d, <<k, v>>)

\* d[k] = v on a dict held as its entries in insertion order
dict_set(d, k, v) ==
    IF \E i \in 1..Len(d) : d[i][1] = k
    THEN [i \in 1..Len(d) |-> IF d[i][1] = k THEN <<k, v>> ELSE d[i]]
    ELSE Append(d, <<k, v>>)

\* collaborate(task, specialists) is called: results = {}
Collaborate ==
    /\ mas.pc = "idle"
    /\ \E t \in Tasks :
       \E l \in UNION { [1..n -> Specialties] : n \in 0..MaxSpecialists } :
         mas' = [pc |-> "loop", task |-> t, specialists |-> l, invoked |-> <<>>,
                 results |-> <<>>]
    /\ UNCHANGED <<agentVars, client, slog, tlog, main, suite, otests>>

\* one pass of the loop: results[specialist] = self.run_specialist(...)
RunSpecialist ==
    /\ mas.pc = "loop"
    /\ Len(mas.invoked) < Len(mas.specialists)
    /\ \E invoke \in { Return(PyStr(a)) : a \in Answers }
                       \cup { Raise("Exception", e) : e \in Exceptions } :
         LET specialist == mas.specialists[Len(mas.invoked) + 1]
             call == [specialty |-> specialist,
                      prompt |-> full_prompt(specialist, mas.task),
                      outcome |-> invoke]
             r == run_specialist(invoke)
         IN  mas' = IF r.kind = "raise"
                    THEN [mas EXCEPT !.pc = "raised", !.invoked = Append(@, call)]
                    ELSE [mas EXCEPT !.invoked = Append(@, call),
                                     !.results = dict_set(@, specialist, r.val.s)]
    /\ UNCHANGED <<agentVars, client, slog, tlog, main, suite, otests>>

\* the list is exhausted: return results
CollaborateReturn ==
    /\ mas.pc = "loop"
    /\ Len(mas.invoked) = Len(mas.specialists)
    /\ mas' = [mas EXCEPT !.pc = "returned"]
    /\ UNCHANGED <<agentVars, client, slog, tlog, main, suite, otests>>

MasInit == AgentIdle /\ OutsideIdle

MasNext ==
    \/ Collaborate
    \/ RunSpecialist
    \/ CollaborateReturn

MasSpec == MasInit /\ [][MasNext]_vars

-----------------------------------------------------------------------------
(* test_prompts.LlamaTestSuite *)

MaxTests == 2

\* the categories of the run_test calls of run_all_tests, in order
AllTests ==
    << "Reasoning & Logic", "Coding", "Analysis", "Creativity",
       "Technical Explanation", "Coding", "Problem Solving",
       "Instruction Following", "Critical Thinking", "Practical Application" >>

\* what a generation of run_all_tests meets: two chunks and the end, or a
\* failure after the first chunk
AllTestsStreams ==
    { [items |-> <<[response |-> <<"a">>], [response |-> <<"B">>]>>, end |-> [kind |-> "end"]],
      [items |-> <<[response |-> <<"a">>]>>,
       end |-> Raise("ResponseError", <<"r","e","f","u","s","e","d">>)] }

\* what a generation of a single run_test call meets
TestStreams ==
    AllTestsStreams
    \cup { [items |-> <<>>, end |-> [kind |-> "end"]],
           [items |-> <<>>, end |-> Raise("ConnectionError", <<"t","i","m","e","d"," ","o","u","t">>)],
           [items |-> <<[response |-> <<"B">>], [done |-> TRUE], [response |-> <<"a">>]>>,
            end |-> [kind |-> "end"]],
           [items |-> <<[response |-> <<"B">>], [response |-> <<"a">>]>>,
            end |-> Raise("ResponseError", <<"r","e","f","u","s","e","d">>)] }

\* a run_test without its try/except
run_test_unguarded(category, stream) ==
    IF stream.end.kind = "raise" THEN stream.end
    ELSE Return([category |-> category,
                 response |-> PyStr(stream_text("generate", stream.items)),
                 success |-> TRUE])

\* a run_test that records the text received before the failure
run_test_partial(category, stream) ==
    IF stream.end.kind = "raise"
    THEN Return([category |-> category,
                 response |-> PyStr(stream_text("generate", stream.items)),
                 success |-> FALSE,
                 error |-> stream.end.text])
    ELSE Return([category |-> category,
                 response |-> PyStr(stream_text("generate", stream.items)),
                 success |-> TRUE])

\* the dict result of LlamaTestSuite.run_test, given what the stream does
run_test(category, stream) ==
    IF stream.end.kind = "raise"
    THEN Return([category |-> category,
                 response |-> PyNone,
                 success |-> FALSE,
                 error |-> stream.end.text])
    ELSE Return([category |-> category,
                 response |-> PyStr(stream_text("generate", stream.items)),
                 success |-> TRUE])

\* sum(1 for r in self.results if r['success'])
successful_tests(results) == Cardinality({ i \in 1..Len(results) : results[i].success })

\* print_summary: the totals it prints; it divides by the number of results
print_summary(results) ==
    IF results = <<>> THEN Raise("ZeroDivisionError", <<"d","i","v","i","s","i","o","n"," ","b","y"," ","z","e","r","o">>)
    ELSE Return([total |-> Len(results), successful |-> successful_tests(results)])

\* the suite after run_test(category, ...) met the stream
after_run_test(category, stream, next) ==
    LET out == run_test(category, stream)
        call == [category |-> category, stream |-> stream]
    IN  IF out.kind = "raise"
        THEN [suite EXCEPT !.pc = "raised", !.calls = Append(@, call)]
        ELSE [suite EXCEPT !.pc = next, !.calls = Append(@, call),
                           !.results = Append(@, out.val)]

\* suite.run_test(...) called on its own, as run_quick_test does
RunTest ==
    /\ suite.pc = "idle"
    /\ Len(suite.calls) < MaxTests
    /\ \E category \in {"Quick Test", "Coding"} :
       \E stream \in TestStreams :
         suite' = after_run_test(category, stream, "idle")
    /\ UNCHANGED <<agentVars, client, slog, tlog, main, mas, otests>>

\* suite.run_all_tests() is called on a new suite, as main does
RunAllTests ==
    /\ suite.pc = "idle"
    /\ suite.calls = <<>>
    /\ suite' = [suite EXCEPT !.pc = "all"]
    /\ UNCHANGED <<agentVars, client, slog, tlog, main, mas, otests>>

\* the next run_test call of run_all_tests
RunAllTestsStep ==
    /\ suite.pc = "all"
    /\ Len(suite.calls) < Len(AllTests)
    /\ \E stream \in AllTestsStreams :
         suite' = after_run_test(AllTests[Len(suite.calls) + 1], stream, "all")
    /\ UNCHANGED <<agentVars, client, slog, tlog, main, mas, otests>>

\* self.print_summary() at the end of run_all_tests
PrintSummary ==
    /\ suite.pc = "all"
    /\ Len(suite.calls) = Len(AllTests)
    /\ LET out == print_summary(suite.results)
       IN  suite' = IF out.kind = "raise" THEN [suite EXCEPT !.pc = "raised"]
                    ELSE [suite EXCEPT !.pc = "done", !.summary = out.val]
    /\ UNCHANGED <<agentVars, client, slog, tlog, main, mas, otests>>

SuiteInit == AgentIdle /\ OutsideIdle

SuiteNext ==
    \/ RunTest
    \/ RunAllTests
    \/ RunAllTestsStep
    \/ PrintSummary

SuiteSpec == SuiteInit /\ [][SuiteNext]_vars

-----------------------------------------------------------------------------
(* test_ollama.run_ollama_tests *)

\* the contents the model may answer a test with
TestContents ==
    { <<"{","\"","s","u","m","m","a","r","y","\"",":"," ","\"","h","i","\"",","," ","\"","b","e","n","e","f","i","t","s","\"",":"," ","[","\"","a","\"",","," ","\"","b","\"","]","}">>,
      <<"{","\"","b","e","n","e","f","i","t","s","\"",":"," ","3","}">>,
      <<"{","\"","f","e","a","t","u","r","e","s","\"",":"," ","[","\"","a","\"","]","}">>,
      <<"{","\"","f","e","a","t","u","r","e","s","\"",":"," ","1","}">>,
      <<"[","]">>,
      <<"[","\"","f","e","a","t","u","r","e","s","\"","]">>,
      <<"7">>,
      <<"\"","f","e","a","t","u","r","e","s","\"">>,
      <<"n","u","l","l">>,
      <<"{","\"","s","u","m","m","a","r","y","\"">>,
      <<>> }

\* what client.chat does inside ask_ollama_structured during a test
TestChatOutcomes ==
    { Raise("ConnectionError", <<"r","e","f","u","s","e","d">>),
      Raise("ResponseError", <<"t","i","m","e","d"," ","o","u","t">>) }
    \cup { Return([message |-> [role |-> "assistant", content |-> c]]) : c \in TestContents }

\* the statements of test 1 after the call: json.dumps, .get('summary'),
\* enumerate(.get('benefits', []))
test1_body(v) ==
    IF v.type # "dict"
    THEN Raise("AttributeError", <<"o","b","j","e","c","t"," ","h","a","s"," ","n","o"," ","a","t","t","r","i","b","u","t","e"," ","'","g","e","t","'">>)
    ELSE IF dict_get(v.entries, <<"b","e","n","e","f","i","t","s">>, PyList(<<>>)).type \in {"list", "str", "dict"}
         THEN Return(PyNone)
         ELSE Raise("TypeError", <<"o","b","j","e","c","t"," ","i","s"," ","n","o","t"," ","i","t","e","r","a","b","l","e">>)

\* the statements of test 2 after the call: 'features' in response and
\* isinstance(response['features'], list)
test2_body(v) ==
    CASE v.type = "dict" -> Return(PyNone)
      [] v.type = "list" ->
           IF \E i \in 1..Len(v.items) :
                v.items[i].type = "str" /\ v.items[i].s = <<"f","e","a","t","u","r","e","s">>
           THEN Raise("TypeError", <<"l","i","s","t"," ","i","n","d","i","c","e","s"," ","m","u","s","t"," ","b","e"," ","i","n","t","e","g","e","r","s"," ","o","r"," ","s","l","i","c","e","s",","," ","n","o","t"," ","s","t","r">>)
           ELSE Return(PyNone)
      [] v.type = "str" ->
           IF Contains(<<"f","e","a","t","u","r","e","s">>, v.s)
           THEN Raise("TypeError", <<"s","t","r","i","n","g"," ","i","n","d","i","c","e","s"," ","m","u","s","t"," ","b","e"," ","i","n","t","e","g","e","r","s",","," ","n","o","t"," ","'","s","t","r","'">>)
           ELSE Return(PyNone)
      [] OTHER -> Raise("TypeError", <<"a","r","g","u","m","e","n","t"," ","i","s"," ","n","o","t"," ","i","t","e","r","a","b","l","e">>)

\* a test block without its try/except
try_block_unguarded(out, body) ==
    IF out.kind = "raise" THEN out
    ELSE body

\* try: <call>; <body>  except Exception as e: print(...)
try_block(out, body) ==
    IF out.kind = "raise" THEN Return(PyStr(<<"c","a","u","g","h","t">>))
    ELSE IF body.kind = "raise" THEN Return(PyStr(<<"c","a","u","g","h","t">>))
    ELSE Return(PyStr(<<"p","r","i","n","t","e","d">>))

\* run_ollama_tests after one of its two test blocks
after_test(n, chat, next) ==
    LET out == ask_ollama_structured(chat)
        body == IF out.kind = "raise" THEN out
                ELSE IF n = 1 THEN test1_body(out.val) ELSE test2_body(out.val)
        block == try_block(out, body)
        attempt == [test |-> n, chat |-> chat, out |-> out, body |-> body]
    IN  IF block.kind = "raise"
        THEN [pc |-> "raised", attempts |-> Append(otests.attempts, attempt)]
        ELSE [pc |-> next, attempts |-> Append(otests.attempts, attempt)]

\* run_ollama_tests() is called
RunOllamaTests ==
    /\ otests.pc = "idle"
    /\ otests' = [otests EXCEPT !.pc = "test1"]
    /\ UNCHANGED <<agentVars, client, slog, tlog, main, mas, suite>>

\* Test 1: Docker Explanation
OllamaTest1 ==
    /\ otests.pc = "test1"
    /\ \E chat \in TestChatOutcomes : otests' = after_test(1, chat, "test2")
    /\ UNCHANGED <<agentVars, client, slog, tlog, main, mas, suite>>

\* Test 2: LLM Features
OllamaTest2 ==
    /\ otests.pc = "test2"
    /\ \E chat \in TestChatOutcomes : otests' = after_test(2, chat, "complete")
    /\ UNCHANGED <<agentVars, client, slog, tlog, main, mas, suite>>

\* the closing line is printed and the function returns
OllamaTestsComplete ==
    /\ otests.pc = "complete"
    /\ otests' = [otests EXCEPT !.pc = "done"]
    /\ UNCHANGED <<agentVars, client, slog, tlog, main, mas, suite>>

OllamaTestsInit == AgentIdle /\ OutsideIdle

OllamaTestsNext ==
    \/ RunOllamaTests
    \/ OllamaTest1
    \/ OllamaTest2
    \/ OllamaTestsComplete

OllamaTestsSpec == OllamaTestsInit /\ [][OllamaTestsNext]_vars

-----------------------------------------------------------------------------
(* Vocabulary of the properties, stated without the operators of the model *)

InRun == pc \notin {"idle", "returned"}

Keywords ==
    { <<"c","a","l","c","u","l","a","t","e">>, <<"t","i","m","e">>,
      <<"d","o","c","k","e","r">>, <<"s","e","a","r","c","h">>,
      <<"m","e","m","o","r","y">> }

SameLetter(a, b) ==
    a = b \/ \E n \in 1..26 : {a, b} = {UpperCase[n], LowerCase[n]}

MentionsIgnoringCase(k, s) ==
    \E i \in 0..(Len(s) - Len(k)) : \A j \in 1..Len(k) : SameLetter(s[i + j], k[j])

AppearsToRequestTool(m) ==
    \/ m.tool_calls # <<>>
    \/ m.role = "assistant" /\ \E k \in Keywords : MentionsIgnoringCase(k, m.content)

Extends(old, new) ==
    Len(old) <= Len(new) /\ \A i \in 1..Len(old) : new[i] = old[i]

-----------------------------------------------------------------------------
(* Properties *)

\* C1: a run performs at most max_iterations model calls, whatever the model
\* does (answers, tool requests, exceptions).
C1_AtMostBudgetModelCalls == calls <= max_iterations

C1_Witness ==
    pc = "returned" /\ max_iterations >= 2 /\ calls = max_iterations
        /\ failed /\ toolSteps >= 1

\* C2: in every reachable state 0 <= iterations <= max_iterations.
C2_IterationsWithinBudget == iterations >= 0 /\ iterations <= max_iterations

C2_Witness == InRun /\ max_iterations >= 2 /\ iterations = max_iterations /\ step = "reply"

\* C3: an assistant message with no tool-call indicator ends the loop: it is
\* the last message and no tool step follows it; when it is the first
\* response, the run had exactly one model call and no tool step.
C3_NoIndicatorEndsAfterOneTurn ==
    \A i \in 1..Len(messages) :
        (messages[i].role = "assistant" /\ ~AppearsToRequestTool(messages[i]))
        => /\ i = Len(messages)
           /\ pc \in {"end", "returned"}
           /\ (i = 2 => calls = 1 /\ toolSteps = 0)

C3_Witness ==
    /\ pc = "end" /\ step = "reply" /\ max_iterations >= 2
    /\ Len(messages) = 2 /\ ~AppearsToRequestTool(messages[2])
    /\ calls = 1 /\ toolSteps = 0

\* C4: after an agent step the loop goes to the tool step iff the iteration
\* count is below the budget and the latest message appears to request a
\* tool (tool calls, or a keyword in assistant text, case-insensitively);
\* otherwise the run ends.
C4_ContinuationRule ==
    [][(pc = "agent" /\ pc' # "agent")
        => /\ pc' \in {"tools", "end"}
           /\ pc' = "tools" <=> (iterations' < max_iterations
                                  /\ AppearsToRequestTool(messages'[Len(messages')]))]_vars

C4_Witness ==
    /\ pc = "tools" /\ step = "reply" /\ iterations < max_iterations
    /\ messages[Len(messages)].tool_calls = <<>>

\* C5: every run terminates: once the loop is entered it eventually stops,
\* at END (a final answer or the exhausted budget) or, when the graph
\* execution itself raises, in the handler of run().
C5_EveryRunTerminates == (pc \in {"agent", "tools"}) ~> (pc \in {"end", "raised"})

C5_Witness ==
    pc = "end" /\ max_iterations >= 2 /\ iterations = max_iterations /\ toolSteps >= 1

\* C6: a model call that throws is caught in the agent step: exactly one
\* assistant message "Error: <text>" is appended, the turn is counted and
\* the run is not aborted.
C6_ModelFailureCaught ==
    [][(pc = "agent" /\ step' = "throw")
        => /\ messages' = Append(messages, [role |-> "assistant",
                                            content |-> ErrorPrefix \o exc',
                                            tool_calls |-> <<>>])
           /\ iterations' = iterations + 1
           /\ pc' \in {"tools", "end"}
           /\ returned' = returned]_vars

C6_Witness ==
    /\ step = "throw" /\ iterations >= 2
    /\ messages[Len(messages)].content = ErrorPrefix \o exc

\* C7 (as claimed): after a model call failed, the run does not end before
\* the iteration budget is reached.
C7_ContinuesAfterFailure ==
    (failed /\ pc \in {"end", "returned"}) => iterations >= max_iterations

\* C8 (as claimed): a run that ended with the iteration limit reached
\* returns the text "Maximum iterations reached." to the caller of run().
C8_ExhaustionReported ==
    (pc = "returned" /\ step = "return" /\ iterations >= max_iterations)
        => returned = MaxIterationsText

\* C9: within a run the history only grows: after every step the previous
\* history is a prefix of the new one.
C9_HistoryAppendOnly == [][InRun => Extends(messages, messages')]_vars

C9_Witness ==
    \/ step = "exhausted" /\ Len(messages) = 2 /\ messages[1] = messages[2]
    \/ pc = "end" /\ toolSteps >= 2 /\ Len(messages) >= 6

\* C10: the iteration counter grows by exactly one in every agent turn
\* (an agent step that calls the model, whether the call returns or throws)
\* and is changed by nothing else in a run: not by a tool step, not by the
\* agent step taken at the limit, not by the return.
C10_CounterCountsAgentTurns ==
    [][InRun => IF pc = "agent" /\ step' \in {"reply", "throw"}
                THEN iterations' = iterations + 1 /\ calls' = calls + 1
                ELSE iterations' = iterations /\ calls' = calls]_vars

C10_Witness ==
    step = "tools" /\ toolSteps = 2 /\ iterations = 2 /\ failed

\* C11: run() never raises to its caller: a run that reached END returns the
\* content of the last message, and a run whose graph execution raised
\* returns "Error running agent: <text>"; every run that stopped returns.
C11_RunNeverRaises ==
    [][(pc \in {"end", "raised"})
        => /\ pc' = "returned"
           /\ returned' = IF pc = "raised"
                          THEN RunErrorPrefix \o exc
                          ELSE messages[Len(messages)].content]_vars

C11_Witness ==
    /\ pc = "returned" /\ toolSteps >= 1 /\ exc # <<>>
    /\ returned = RunErrorPrefix \o exc

\* C15: in every agent turn the model receives the system instruction
\* followed by the whole history of the run, in order, and the system
\* instruction is never part of the history.
C15_ModelSeesWholeHistory ==
    [][(pc = "agent" /\ step' \in {"reply", "throw"})
        => /\ Len(llm_input') = Len(messages) + 1
           /\ llm_input'[1].role = "system"
           /\ llm_input'[1].content = SystemPromptText
           /\ \A i \in 1..Len(messages) : llm_input'[i + 1] = messages[i]
           /\ \A i \in 1..Len(messages') : messages'[i].role # "system"]_vars

C15_Witness ==
    /\ step = "reply" /\ iterations = 3 /\ Len(llm_input) >= 5
    /\ llm_input[Len(llm_input)].role = "tool"

\* C16: every run starts from its own task only: iteration count 0, a
\* history holding just the task message, an empty result; and no step
\* changes the agent's max_iterations.
C16_RunsIndependent ==
    [][/\ max_iterations' = max_iterations
       /\ (step' = "run" /\ runs' = runs + 1)
            => /\ messages' = <<[role |-> "user", content |-> task', tool_calls |-> <<>>]>>
               /\ iterations' = 0
               /\ result' = <<>>
               /\ returned' = <<>>
               /\ calls' = 0]_vars

C16_Witness ==
    runs = 2 /\ step = "run" /\ pc = "agent" /\ Len(messages) = 1 /\ iterations = 0

\* C18 (as claimed): once write_to_memory("k", "v") has been executed, the
\* pair is held in memory.
C18_WriteToMemoryStores ==
    (\E i \in 1..Len(messages) :
        /\ messages[i].role = "tool"
        /\ i > 1
        /\ messages[i - 1].tool_calls = <<"write_to_memory">>)
    => <<<<"k">>, <<"v">>>> \in memory

\* C19: with a budget of at least 1, a run that reached END returns the
\* content of the last message of the conversation, and that message is an
\* assistant message appended during this run.  (With budget 0 no model call
\* is made and the last message is the task itself.)
C19_ReturnsFinalResponse ==
    [][(pc = "end" /\ pc' = "returned" /\ max_iterations >= 1)
        => /\ Len(messages) >= 2
           /\ returned' = messages[Len(messages)].content
           /\ messages[Len(messages)].role = "assistant"]_vars

C19_Witness ==
    /\ pc = "returned" /\ max_iterations >= 2 /\ toolSteps >= 1 /\ calls >= 2
    /\ returned = messages[Len(messages)].content
    /\ returned # <<>> /\ returned # RunErrorPrefix \o exc

\* C20: the loop has two states and starts in the agent step; a tool step is
\* taken only right after an agent step that decided to continue, and it is
\* always followed by an agent step: never by a tool step, never by the end.
C20_TwoStateMachine ==
    [][/\ step' = "run" => pc' = "agent"
       /\ (InRun /\ pc' = "tools")
            => /\ pc = "agent"
               /\ iterations' < max_iterations
               /\ AppearsToRequestTool(messages'[Len(messages')])
       /\ (pc = "tools" /\ toolSteps' = toolSteps + 1) => pc' = "agent"
       /\ (pc = "agent" /\ step = "tools")
            => step' \in {"reply", "throw", "exhausted"}]_vars

C20_Witness ==
    pc = "agent" /\ step = "tools" /\ toolSteps = 2

Invalid == [type |-> "invalid"]

\* what json.loads makes of each content: the value, or Invalid
Decoded ==
    << <<<<"{","}">>, PyDict(<<>>)>>,
       <<<<"{","\"","a","\"",":","1","}">>, PyDict(<<"a">> :> PyInt(1))>>,
       <<<<"{","\"","a","\"",":"," ","[","1",","," ","2","]","}">>, PyDict(<<"a">> :> PyList(<<PyInt(1), PyInt(2)>>))>>,
       <<<<"[","]">>, PyList(<<>>)>>,
       <<<<" ","7"," ">>, PyInt(7)>>,
       <<<<"\"","h","i","\"">>, PyStr(<<"h","i">>)>>,
       <<<<"n","u","l","l">>, PyNone>>,
       <<<<>>, Invalid>>,
       <<<<"{","\"","a","\"",":","1">>, Invalid>>,
       <<<<"h","i">>, Invalid>>,
       <<<<"{","\"","a","\"",":","1","}"," ","x">>, Invalid>>,
       <<<<"[","1",",","]">>, Invalid>>,
       <<<<"{","\"","a","\"","}">>, Invalid>>,
       <<<<"0","1">>, Invalid>> >>

HasContent(chat) ==
    /\ chat.kind = "return"
    /\ "message" \in DOMAIN chat.val
    /\ "content" \in DOMAIN chat.val.message

\* C13: when the content of the response is not valid JSON the call raises
\* JSONDecodeError and returns nothing; when it is valid JSON the call
\* returns exactly the decoded value.
C13_DecodeFailureSurfaces ==
    \A i \in 1..Len(slog) :
        HasContent(slog[i].chat) =>
            \E k \in 1..Len(Decoded) :
                /\ Decoded[k][1] = slog[i].chat.val.message.content
                /\ IF Decoded[k][2].type = "invalid"
                   THEN slog[i].out.kind = "raise" /\ slog[i].out.exc = "JSONDecodeError"
                   ELSE /\ slog[i].out.kind = "return"
                        /\ slog[i].out.val.type = Decoded[k][2].type
                        /\ slog[i].out.val = Decoded[k][2]

C13_Witness ==
    /\ Len(slog) = 2
    /\ HasContent(slog[1].chat)
    /\ slog[1].chat.val.message.content = <<"{","\"","a","\"",":","1","}"," ","x">>
    /\ slog[1].out.kind = "raise"
    /\ HasContent(slog[2].chat)
    /\ slog[2].out.kind = "return" /\ slog[2].out.val.type = "dict"
    /\ DOMAIN slog[2].out.val.entries = {<<"a">>}

\* C12: check_connection never throws; it returns True exactly when the
\* version request completed with status 200, and False for every other
\* status and for every exception.
C12_ProbeReturnsBoolean ==
    client.op = "check_connection"
    => /\ client.out.kind = "return"
       /\ client.out.val.type = "bool"
       /\ client.out.val.b = (client.env.kind = "return" /\ client.env.val.status_code = 200)

C12_Witness ==
    /\ client.op = "check_connection" /\ client.env.kind = "raise"
    /\ client.out.kind = "return" /\ client.out.val.type = "bool" /\ ~client.out.val.b

\* C14: no OllamaClient operation raises when the remote call fails:
\* generate and chat return None, list_models returns an empty list,
\* pull_model returns False; and pull_model returns True only when the whole
\* progress stream was consumed without an exception.
C14_FailuresBecomeValues ==
    (client.op # "none" /\ client.phase = "done")
    => /\ client.out.kind = "return"
       /\ (client.op \in {"generate", "chat"} /\ client.env.kind = "raise")
            => client.out.val.type = "NoneType"
       /\ (client.op = "list_models" /\ client.env.kind = "raise")
            => client.out.val.type = "list" /\ client.out.val.items = <<>>
       /\ client.op = "pull_model"
            => /\ client.out.val.type = "bool"
               /\ client.env.kind = "raise" => ~client.out.val.b
               /\ client.out.val.b
                    => /\ client.env.kind = "end"
                       /\ \A i \in 1..Len(client.seen) :
                            "total" \in DOMAIN client.seen[i] => client.seen[i].total # 0

C14_Witness ==
    /\ client.op = "pull_model" /\ client.phase = "done"
    /\ Len(client.seen) = 2 /\ client.env.kind = "raise"
    /\ client.out.val.type = "bool" /\ ~client.out.val.b

\* what calculate answers for each expression
CalculateAnswers ==
    << <<<<"2","+","2">>, <<"R","e","s","u","l","t",":"," ","4">>>>,
       <<<<"1","0"," ","*"," ","5">>, <<"R","e","s","u","l","t",":"," ","5","0">>>>,
       <<<<"2","-","5">>, <<"R","e","s","u","l","t",":"," ","-","3">>>>,
       <<<<"8","/","2">>, <<"R","e","s","u","l","t",":"," ","4",".","0">>>>,
       <<<<"1","/","0">>, <<"E","r","r","o","r"," ","c","a","l","c","u","l","a","t","i","n","g",":"," ","d","i","v","i","s","i","o","n"," ","b","y"," ","z","e","r","o">>>>,
       <<<<"x">>, <<"E","r","r","o","r"," ","c","a","l","c","u","l","a","t","i","n","g",":"," ","n","a","m","e"," ","'","x","'"," ","i","s"," ","n","o","t"," ","d","e","f","i","n","e","d">>>>,
       <<<<"2","+">>, <<"E","r","r","o","r"," ","c","a","l","c","u","l","a","t","i","n","g",":"," ","i","n","v","a","l","i","d"," ","s","y","n","t","a","x"," ","(","<","s","t","r","i","n","g",">",","," ","l","i","n","e"," ","1",")">>>> >>

\* C17: the registry has five tools; each returns a string and never
\* raises; calculate answers "Result: ..." or, on an evaluation error,
\* "Error calculating: ..."; check_docker_status answers the "not running"
\* text on a non-zero exit and "Cannot check Docker status: ..." on an
\* exception.
C17_ToolsReturnStrings ==
    /\ Len(tools) = 5
    /\ Cardinality({tools[i] : i \in 1..Len(tools)}) = 5
    /\ \A i \in 1..Len(tlog) :
        /\ \E k \in 1..Len(tools) : tools[k] = tlog[i].tool
        /\ tlog[i].out.kind = "return"
        /\ tlog[i].out.val.type = "str"
        /\ tlog[i].tool = "calculate"
             => \E k \in 1..Len(CalculateAnswers) :
                  /\ CalculateAnswers[k][1] = tlog[i].arg
                  /\ CalculateAnswers[k][2] = tlog[i].out.val.s
        /\ (tlog[i].tool = "check_docker_status" /\ tlog[i].arg.kind = "raise")
             => tlog[i].out.val.s = <<"C","a","n","n","o","t"," ","c","h","e","c","k"," ","D","o","c","k","e","r"," ","s","t","a","t","u","s",":"," ">> \o tlog[i].arg.text
        /\ (tlog[i].tool = "check_docker_status" /\ tlog[i].arg.kind = "return")
             => (tlog[i].arg.val.returncode # 0
                   <=> tlog[i].out.val.s = <<"D","o","c","k","e","r"," ","i","s"," ","n","o","t"," ","r","u","n","n","i","n","g"," ","o","r"," ","n","o","t"," ","a","c","c","e","s","s","i","b","l","e",".">>)

C17_Witness ==
    /\ Len(tlog) = 2
    /\ tlog[1].tool = "calculate" /\ tlog[1].arg = <<"1","/","0">>
    /\ tlog[1].out.kind = "return"
    /\ tlog[2].tool = "check_docker_status" /\ tlog[2].arg.kind = "raise"
    /\ tlog[2].out.kind = "return"

\* C21: whenever the loop goes through the tool step, the latest message
\* names tools of the registry, each of them is executed and one
\* observation per call is appended before the next model call.
C21_ToolExecutedAndObserved ==
    [][(pc = "tools" /\ pc' = "agent")
        => /\ Last(messages).tool_calls # <<>>
           /\ \A i \in 1..Len(Last(messages).tool_calls) :
                \E k \in 1..Len(tools) : tools[k] = Last(messages).tool_calls[i]
           /\ Len(messages') = Len(messages) + Len(Last(messages).tool_calls)
           /\ \A i \in (Len(messages) + 1)..Len(messages') : messages'[i].role = "tool"]_vars

\* C22: the budget test comes before the tool request: with a budget
\* N >= 1 a run has at most N - 1 tool steps, and the tools node is never
\* entered once the counter has reached the budget.
C22_BudgetBeforeToolRequest ==
    /\ max_iterations >= 1 => toolSteps <= max_iterations - 1
    /\ iterations >= max_iterations => pc # "tools"

C22_Witness ==
    /\ max_iterations = 2
    /\ toolSteps = 1
    /\ iterations = 2
    /\ pc = "returned"
    /\ messages[Len(messages)].tool_calls # <<>>

\* C23: the agent step entered after a tool step has its counter below the
\* budget, the step that follows a tool step is a model call, it does
\* follow, and a run that completes does not end on a tool observation.
C23_ToolResultFedBack ==
    /\ [](step = "tools" => (pc = "agent" /\ iterations < max_iterations))
    /\ [][step = "tools" => (step' \in {"reply", "throw"} /\ calls' = calls + 1)]_vars
    /\ (step = "tools") ~> (step \in {"reply", "throw"})
    /\ [](pc \in {"end", "returned"} /\ messages # <<>>
            => messages[Len(messages)].role # "tool")

C23_Witness ==
    /\ pc = "returned"
    /\ toolSteps >= 1
    /\ \E i \in 1..Len(messages) : messages[i].role = "tool"
    /\ messages[Len(messages)].role = "assistant"

\* the text a chunk carries, and the texts of a sequence of chunks joined
ChunkText(op, item) ==
    IF op = "generate"
    THEN IF "response" \in DOMAIN item THEN item.response ELSE <<>>
    ELSE IF "message" \in DOMAIN item /\ "content" \in DOMAIN item.message
         THEN item.message.content
         ELSE <<>>

RECURSIVE JoinedText(_, _)
JoinedText(op, items) ==
    IF items = <<>> THEN <<>>
    ELSE ChunkText(op, Head(items)) \o JoinedText(op, Tail(items))

\* C25: a streamed generate or chat returns the texts of all chunks joined
\* in arrival order; when the stream fails, after any number of chunks, it
\* returns None and not the text received so far.
C25_StreamedTextOrNone ==
    (client.op \in {"generate", "chat"} /\ client.phase = "done")
    => /\ client.env.kind = "end"
            => /\ client.out.kind = "return"
               /\ client.out.val.type = "str"
               /\ client.out.val.s = JoinedText(client.op, client.seen)
       /\ client.env.kind = "raise"
            => /\ client.out.kind = "return"
               /\ client.out.val.type = "NoneType"

C25_Witness ==
    /\ client.op = "chat" /\ client.phase = "done"
    /\ client.env.kind = "raise"
    /\ Len(client.seen) = 2
    /\ JoinedText("chat", client.seen) = <<"a", "B">>
    /\ client.out.val.type = "NoneType"

\* sub occurs in text
Infix(sub, text) ==
    \E k \in 1..(Len(text) - Len(sub) + 1) :
        \A j \in 1..Len(sub) : text[k + j - 1] = sub[j]

\* the listing shows a model whose name has 'llama3.2' in it
ListingShowsDefault(list) ==
    /\ list.kind = "return"
    /\ "models" \in DOMAIN list.val
    /\ \E i \in 1..Len(list.val.models) :
         Infix(<<"l","l","a","m","a","3",".","2">>, list.val.models[i].name)

\* the progress stream ended without an exception and no progress item made
\* the loop divide by a zero total
PullWentThrough(stream) ==
    /\ stream.end.kind = "end"
    /\ \A i \in 1..Len(stream.items) :
         "total" \in DOMAIN stream.items[i] => stream.items[i].total # 0

\* C24: main issues no list, pull, generate or chat request unless the probe
\* answered 200; no generate or chat request unless the default model was
\* listed or pulled; a failed probe or pull is the last request and the
\* process exits with status 1.
C24_MainGuardsItsRequests ==
    LET log == main.log
        Probed == log # <<>> /\ log[1].req = "check_connection"
                    /\ log[1].env.kind = "return" /\ log[1].env.val.status_code = 200
    IN  /\ \A i \in 1..Len(log) :
            /\ log[i].req \in {"list_models", "pull_model", "generate", "chat"}
                 => i > 1 /\ Probed
            /\ log[i].req \in {"generate", "chat"}
                 => \E j \in 1..(i - 1) :
                      \/ log[j].req = "list_models" /\ ListingShowsDefault(log[j].env)
                      \/ log[j].req = "pull_model" /\ PullWentThrough(log[j].env)
            /\ (log[i].req = "check_connection" /\ ~Probed)
                 => i = Len(log) /\ main.pc = "exited" /\ main.status = 1
            /\ (log[i].req = "pull_model" /\ ~PullWentThrough(log[i].env))
                 => i = Len(log) /\ main.pc = "exited" /\ main.status = 1
        /\ main.pc = "exited" => main.status = 1

C24_Witness ==
    /\ main.pc = "exited"
    /\ Len(main.log) = 3
    /\ main.log[3].req = "pull_model"
    /\ main.log[3].env.end.kind = "end"
    /\ Len(main.log[3].env.items) = 2

\* the calls made for one name, by position in the list
CallsFor(name) == { i \in 1..Len(mas.invoked) : mas.invoked[i].specialty = name }

\* C26: collaborate calls the model once per list entry, in list order; a
\* call that throws leaves 'Error: <text>' for its specialist and the
\* later specialists still run; the dict returned has the distinct names of
\* the list as its keys, each once.
C26_CollaborateRunsEverySpecialist ==
    /\ mas.pc # "raised"
    /\ Len(mas.invoked) <= Len(mas.specialists)
    /\ \A i \in 1..Len(mas.invoked) : mas.invoked[i].specialty = mas.specialists[i]
    /\ \A i \in 1..Len(mas.invoked) :
         (i = Len(mas.invoked) /\ mas.invoked[i].outcome.kind = "raise")
            => \E k \in 1..Len(mas.results) :
                 /\ mas.results[k][1] = mas.specialists[i]
                 /\ mas.results[k][2] = <<"E","r","r","o","r",":"," ">>
                                          \o mas.invoked[i].outcome.text
    /\ mas.pc = "returned"
         => /\ Len(mas.invoked) = Len(mas.specialists)
            /\ { mas.results[k][1] : k \in 1..Len(mas.results) }
                 = { mas.specialists[i] : i \in 1..Len(mas.specialists) }
            /\ Len(mas.results)
                 = Cardinality({ mas.specialists[i] : i \in 1..Len(mas.specialists) })

C26_Witness ==
    /\ mas.pc = "returned"
    /\ Len(mas.specialists) = 2
    /\ mas.specialists[1] # mas.specialists[2]
    /\ mas.invoked[1].outcome.kind = "raise"
    /\ mas.invoked[2].outcome.kind = "return"
    /\ Len(mas.results) = 2

\* C27: results holds one record per run_test call, in call order; a record
\* has success True exactly when the stream ended without an exception, and
\* then the joined text as response; otherwise response None and the error
\* text; no call raises, so run_all_tests makes its ten calls and prints the
\* summary.
C27_OneRecordPerTest ==
    /\ suite.pc # "raised"
    /\ Len(suite.results) = Len(suite.calls)
    /\ \A i \in 1..Len(suite.results) :
         LET r == suite.results[i]
             c == suite.calls[i]
         IN  /\ r.category = c.category
             /\ r.success = (c.stream.end.kind = "end")
             /\ r.success => /\ r.response.type = "str"
                             /\ r.response.s = JoinedText("generate", c.stream.items)
             /\ ~r.success => /\ r.response.type = "NoneType"
                              /\ "error" \in DOMAIN r
                              /\ r.error = c.stream.end.text
    /\ suite.pc = "done"
         => /\ Len(suite.results) = 10
            /\ suite.summary.total = 10
            /\ suite.summary.successful
                 = Cardinality({ i \in 1..10 : suite.calls[i].stream.end.kind = "end" })

C27_Witness ==
    /\ suite.pc = "done"
    /\ ~suite.results[1].success
    /\ suite.results[2].success
    /\ ~suite.results[9].success
    /\ suite.results[10].success

\* C28: run_ollama_tests never raises; whatever the first request does
\* (connection error, invalid JSON, a value its prints cannot handle), the
\* second request is attempted next, and after it the function completes.
C28_TestsRunToCompletion ==
    /\ [][/\ otests.pc = "test1" => otests'.pc = "test2"
          /\ otests.pc = "test2" => otests'.pc = "complete"
          /\ otests.pc = "complete" => otests'.pc = "done"]_vars
    /\ [](/\ otests.pc # "raised"
          /\ otests.pc \in {"complete", "done"}
               => /\ Len(otests.attempts) = 2
                  /\ otests.attempts[1].test = 1
                  /\ otests.attempts[2].test = 2)

C28_Witness ==
    /\ otests.pc = "done"
    /\ otests.attempts[1].chat.kind = "return"
    /\ otests.attempts[1].out.kind = "raise"
    /\ otests.attempts[2].chat.kind = "raise"

====
